---------------------------- MODULE Spec2Model ----------------------------
(***************************************************************************)
(* Task management dashboard: the task table (TasksTable.vue) with its     *)
(* repository client (useTasks.ts) and delete confirmation                 *)
(* (DeleteModal.vue), the task form (TaskModal.vue), the table's derived   *)
(* view (filteredTasks), the dashboard (DashboardView.vue) and the details *)
(* view with the instances of the repository client they create, and       *)
(* normalizeStatus.                                                        *)
(*                                                                         *)
(* A JavaScript string is a sequence of one-character strings, so that     *)
(* trim, toLowerCase and includes are computed, not assumed.               *)
(***************************************************************************)
EXTENDS Integers, Sequences, FiniteSets, TLC

VARIABLES
    \* ---- backend (the REST resource behind API_BASE)
    server,          \* the backend's task collection
    \* ---- TasksTable.vue and its useTasks() instance
    mounted,         \* the table component has been set up and mounted
    tasks,           \* useTasks: tasks.value
    loading,         \* useTasks: loading.value
    error,           \* TasksTable: error.value
    showDeleteModal, \* TasksTable: showDeleteModal.value
    taskToDelete,    \* TasksTable: taskToDelete.value
    deleting,        \* TasksTable: deleting.value
    query,           \* TasksTable: query.value
    statusFilter,    \* TasksTable: statusFilter.value
    listReqs,        \* GET requests of the table in flight
    delReqs,         \* DELETE requests of the table in flight
    \* ---- TaskModal.vue and the parent that shows it
    visible,         \* props.visible (showCreate / showEdit of the parent)
    initial,         \* props.initial
    form,            \* form.title, form.description, form.status, form.dueInput
    touched,         \* touched.title, .description, .status, .due
    submitted,       \* submitted.value
    events,          \* the events the form has emitted since it was opened
    parent,          \* the view that shows the form
    savesInFlight,   \* the parent's save handlers that have not finished
    \* ---- the view (DashboardView.vue, the details view) and its own
    \* ---- useTasks() instance
    viewTasks,       \* useTasks: tasks.value of the view's instance
    viewLoading,     \* useTasks: loading.value of the view's instance
    viewError,       \* the details view: error.value
    saving,          \* the view: saving.value
    viewReqs,        \* requests of the view's instance in flight
    routeId,         \* the details view: route.params.id
    \* ---- normalizeStatus applied to a value
    rawStatus,       \* the value
    decided,         \* what normalizeStatus returned for it, and where
    \* ---- history
    last             \* the handler that ran last, with what it was given

tableVars == <<server, mounted, tasks, loading, error, showDeleteModal,
               taskToDelete, deleting, listReqs, delReqs>>
filterVars == <<query, statusFilter>>
formVars == <<visible, initial, form, touched, submitted, events, parent,
              savesInFlight>>
viewVars == <<viewTasks, viewLoading, viewError, saving, viewReqs, routeId>>
statusVars == <<rawStatus, decided>>
vars == <<tableVars, filterVars, formVars, viewVars, statusVars, last>>

---------------------------------------------------------------------------
(* Bounds of the model *)

\* tasks the backend holds at most
MaxTasks == 3
\* tasks of the collection the derived view is computed from
MaxColl == 2
\* events the form emits while closed before the model stops it
MaxEvents == 2
\* fragments a raw status is made of at most
MaxFragments == 2
\* save handlers of the parent running at once
MaxSaving == 1
\* tasks the dashboard creates in the backend at most
MaxCreated == 1

---------------------------------------------------------------------------
(* JavaScript values *)

JsUndefined == [t |-> "undefined", b |-> FALSE, s |-> <<>>]
JsNull == [t |-> "null", b |-> FALSE, s |-> <<>>]
JsBool(b) == [t |-> "boolean", b |-> b, s |-> <<>>]
JsStr(s) == [t |-> "string", b |-> FALSE, s |-> s]

IsNullish(v) == v.t \in {"undefined", "null"}

\* v ?? d
Coalesce(v, d) == IF IsNullish(v) THEN d ELSE v

\* String(v), for the values a title, a description or a status holds
JsString(v) ==
    CASE v.t = "undefined" -> <<"u", "n", "d", "e", "f", "i", "n", "e", "d">>
      [] v.t = "null" -> <<"n", "u", "l", "l">>
      [] v.t = "boolean" -> IF v.b THEN <<"t", "r", "u", "e">>
                                   ELSE <<"f", "a", "l", "s", "e">>
      [] v.t = "string" -> v.s

UpperCase == <<"A", "B", "C", "D", "E", "F", "G", "H", "I", "J", "K", "L", "M",
               "N", "O", "P", "Q", "R", "S", "T", "U", "V", "W", "X", "Y", "Z">>
LowerCase == <<"a", "b", "c", "d", "e", "f", "g", "h", "i", "j", "k", "l", "m",
               "n", "o", "p", "q", "r", "s", "t", "u", "v", "w", "x", "y", "z">>

LowerChar(c) ==
    IF \E i \in DOMAIN UpperCase : UpperCase[i] = c
    THEN LowerCase[CHOOSE i \in DOMAIN UpperCase : UpperCase[i] = c]
    ELSE c

\* s.toLowerCase()
ToLowerCase(s) == [i \in DOMAIN s |-> LowerChar(s[i])]

WhiteSpace == {" ", "\t", "\n"}

RECURSIVE TrimStart(_)
TrimStart(s) ==
    IF s # <<>> /\ Head(s) \in WhiteSpace THEN TrimStart(Tail(s)) ELSE s

RECURSIVE TrimEnd(_)
TrimEnd(s) ==
    IF s # <<>> /\ s[Len(s)] \in WhiteSpace
    THEN TrimEnd(SubSeq(s, 1, Len(s) - 1))
    ELSE s

\* s.trim()
Trim(s) == TrimEnd(TrimStart(s))

\* s.includes(sub)
Includes(s, sub) ==
    \E i \in 0..(Len(s) - Len(sub)) : SubSeq(s, i + 1, i + Len(sub)) = sub

---------------------------------------------------------------------------
(* Tasks *)

\* an id is a number or a string of digits; n is the number the digits write
IdNum(n) == [kind |-> "number", n |-> n]
IdStr(n) == [kind |-> "string", n |-> n]

\* no id: the id of an object that has none
NoId == [kind |-> "undefined", n |-> 0]

\* String(id)
IdString(id) == IdStr(id.n)

\* a date as text: the empty string, the ISO date YYYY-MM-DD of the day-th
\* day after 1970-01-01, or a text (raw) that is neither a date nor a numeral
EmptyText == [iso |-> FALSE, day |-> 0, raw |-> <<>>]
IsoText(day) == [iso |-> TRUE, day |-> day, raw |-> <<>>]
RawText(s) == [iso |-> FALSE, day |-> 0, raw |-> s]

\* a due value: undefined, null, a number (n thousands) or a string
DueUndefined == [t |-> "undefined", n |-> 0, text |-> EmptyText]
DueNull == [t |-> "null", n |-> 0, text |-> EmptyText]
DueNum(n) == [t |-> "number", n |-> n, text |-> EmptyText]
DueStr(text) == [t |-> "string", n |-> 0, text |-> text]

Task(id, title, description, status, due) ==
    [id |-> id, title |-> title, description |-> description,
     status |-> status, due |-> due]

\* null where a task is expected; as an object, one with no field
NoTask == [id |-> NoId, title |-> JsUndefined, description |-> JsUndefined,
           status |-> JsUndefined, due |-> DueUndefined]

Sdone == <<"d", "o", "n", "e">>
Scompleted == <<"c", "o", "m", "p", "l", "e", "t", "e", "d">>
Sprogress == <<"p", "r", "o", "g", "r", "e", "s", "s">>
Sdoing == <<"d", "o", "i", "n", "g">>
Stodo == <<"t", "o", "d", "o">>
Sopen == <<"o", "p", "e", "n">>
Sin == <<"i", "n">>

ToDo == <<"T", "o", " ", "D", "o">>
InProgress == <<"I", "n", " ", "P", "r", "o", "g", "r", "e", "s", "s">>
Done == <<"D", "o", "n", "e">>
All == <<"A", "l", "l">>

\* normalizeStatus as it would be with the tests for 'done' and 'completed'
\* as substrings made before the tests for 'progress' and 'doing'
normalizeStatusDoneFirst(raw) ==
    IF raw = JsBool(TRUE) THEN Done
    ELSE LET s == ToLowerCase(JsString(Coalesce(raw, JsStr(<<>>)))) IN
         IF Includes(s, Sdone) \/ Includes(s, Scompleted) THEN Done
         ELSE IF Includes(s, Sprogress) \/ Includes(s, Sdoing) THEN InProgress
         ELSE ToDo

\* TasksTable.vue: normalizeStatus
normalizeStatus(raw) ==
    IF \/ raw = JsBool(TRUE)
       \/ ToLowerCase(JsString(raw)) = Sdone
       \/ ToLowerCase(JsString(raw)) = Scompleted
    THEN Done
    ELSE LET s == ToLowerCase(JsString(Coalesce(raw, JsStr(<<>>)))) IN
         IF Includes(s, Sin) /\ Includes(s, Sprogress) THEN InProgress
         ELSE IF Includes(s, Sprogress) \/ Includes(s, Sdoing) THEN InProgress
         ELSE IF Includes(s, Stodo) \/ s = Sopen \/ s = <<>> THEN ToDo
         ELSE IF Includes(s, Sdone) \/ Includes(s, Scompleted) THEN Done
         ELSE ToDo

\* normalizeStatusReturn as it would be if no value passed the final test
\* for 'done' and 'completed'
normalizeStatusReturnSkipsFinal(raw) ==
    IF \/ raw = JsBool(TRUE)
       \/ ToLowerCase(JsString(raw)) = Sdone
       \/ ToLowerCase(JsString(raw)) = Scompleted
    THEN 1
    ELSE LET s == ToLowerCase(JsString(Coalesce(raw, JsStr(<<>>)))) IN
         IF Includes(s, Sin) /\ Includes(s, Sprogress) THEN 2
         ELSE IF Includes(s, Sprogress) \/ Includes(s, Sdoing) THEN 3
         ELSE IF Includes(s, Stodo) \/ s = Sopen \/ s = <<>> THEN 4
         ELSE 6

\* the return statement of normalizeStatus that returns for raw, counted from
\* the top: 1 (line 42), 2 (line 44), 3 (line 45), 4 (line 46), 5 (line 47,
\* the final test for 'done' and 'completed'), 6 (line 49)
normalizeStatusReturn(raw) ==
    IF \/ raw = JsBool(TRUE)
       \/ ToLowerCase(JsString(raw)) = Sdone
       \/ ToLowerCase(JsString(raw)) = Scompleted
    THEN 1
    ELSE LET s == ToLowerCase(JsString(Coalesce(raw, JsStr(<<>>)))) IN
         IF Includes(s, Sin) /\ Includes(s, Sprogress) THEN 2
         ELSE IF Includes(s, Sprogress) \/ Includes(s, Sdoing) THEN 3
         ELSE IF Includes(s, Stodo) \/ s = Sopen \/ s = <<>> THEN 4
         ELSE IF Includes(s, Sdone) \/ Includes(s, Scompleted) THEN 5
         ELSE 6

\* what each return statement returns
ReturnedAt == <<Done, InProgress, InProgress, ToDo, Done, ToDo>>

\* normalizeStatus has not been applied
Undecided == [status |-> <<>>, at |-> 0]

\* the value and the result before normalizeStatus is applied
StatusInit ==
    /\ rawStatus = JsUndefined
    /\ decided = Undecided


\* a task of the catalogue the backend's collection is drawn from; ids are
\* unique as strings (a task is the resource API_BASE/String(id))
Catalogue(i) ==
    CASE i % 4 = 1 -> Task(IdStr(i), JsStr(<<"M", "i", "l", "k">>),
                           JsStr(<<"b", "u", "y">>), JsStr(Sdone), DueNull)
      [] i % 4 = 2 -> Task(IdNum(i), JsStr(<<"R", "e", "p", "o", "r", "t">>),
                           JsNull, JsStr(Stodo), DueNum(1700000))
      [] i % 4 = 3 -> Task(IdStr(i), JsStr(<<"C", "a", "l", "l">>),
                           JsStr(<<"M", "i", "a">>), JsBool(TRUE),
                           DueStr(IsoText(19675)))
      [] i % 4 = 0 -> Task(IdNum(i), JsStr(<<"m", "a", "i", "l">>),
                           JsUndefined, JsStr(Sdoing), DueNull)

TaskPool == {Catalogue(i) : i \in 1..MaxTasks}

\* the collection the backend starts with
Backend == [i \in 1..MaxTasks |-> Catalogue(i)]

\* the sequence s without its i-th element
RemoveAt(s, i) == SubSeq(s, 1, i - 1) \o SubSeq(s, i + 1, Len(s))

---------------------------------------------------------------------------
(* TasksTable.vue: the derived view *)

\* the predicate of filteredTasks' filter, for filter sf and query q
\* (q already trimmed and lower-cased)
TaskShown(t, sf, q) ==
    IF sf # All /\ normalizeStatus(t.status) # sf THEN FALSE
    ELSE IF q = <<>> THEN TRUE
    ELSE LET title == ToLowerCase(JsString(Coalesce(t.title, JsStr(<<>>))))
             desc == ToLowerCase(JsString(Coalesce(t.description, JsStr(<<>>))))
         IN  Includes(title, q) \/ Includes(desc, q)

\* filteredTasks' filter as it would be without the trim of the query
FilterTasksUntrimmed(list, sf, qy) ==
    LET q == ToLowerCase(qy) IN
    SelectSeq(list, LAMBDA t : TaskShown(t, sf, q))

FilterTasks(list, sf, qy) ==
    LET q == ToLowerCase(Trim(qy)) IN
    SelectSeq(list, LAMBDA t : TaskShown(t, sf, q))

\* TasksTable.vue: filteredTasks
filteredTasks == FilterTasks(tasks, statusFilter, query)

---------------------------------------------------------------------------
(* Errors *)

\* what a promise rejects with: a string, an object whose message is a
\* string (hasMsg), an object without one, or something else (null, a number)
ErrString(s) == [t |-> "string", s |-> s, hasMsg |-> FALSE, message |-> ""]
ErrObject(m) == [t |-> "object", s |-> "", hasMsg |-> TRUE, message |-> m]
ErrBare == [t |-> "object", s |-> "", hasMsg |-> FALSE, message |-> ""]
ErrOther == [t |-> "other", s |-> "", hasMsg |-> FALSE, message |-> ""]

\* fetch rejects with a TypeError, whose message the browser words
FetchErrors == {ErrObject("Failed to fetch"), ErrObject("Load failed")}

\* TasksTable.vue: getErrorMessage
getErrorMessage(err) ==
    IF err.t = "string" THEN err.s
    ELSE IF err.t = "object" /\ err.hasMsg THEN err.message
    ELSE "Failed to load"

\* error.value: null, or a message
NoError == [set |-> FALSE, msg |-> ""]
ErrorMsg(m) == [set |-> TRUE, msg |-> m]

\* the truthiness the template tests with v-else-if="error"
Truthy(e) == e.set /\ e.msg # ""

---------------------------------------------------------------------------
(* TaskModal.vue: the state a new component starts in *)

\* TaskModal.vue:53-63, the form as declared
EmptyForm == [title |-> <<>>, description |-> <<>>, status |-> JsStr(ToDo),
              dueInput |-> EmptyText]
\* TaskModal.vue:65-75, the touched flags as declared
Untouched == [title |-> FALSE, description |-> FALSE, status |-> FALSE,
              due |-> FALSE]

\* DashboardView.vue: initial, and what openCreate assigns to it
CreateDefaults == Task(NoId, JsStr(<<>>), JsStr(<<>>), JsStr(ToDo), DueNull)

\* the views that show the form: the dashboard (DashboardView.vue), the
\* dashboard that keys the form by showCreate so that it is a new component
\* each time showCreate changes, and the details view
Parents == {"dashboard", "dashboard-keyed", "details"}

\* the form after the parent p has been set up: not shown, props.initial
\* the parent's object (the details view's edited starts empty)
FormInit(p) ==
    /\ parent = p
    /\ visible = FALSE
    /\ initial = IF p = "details" THEN NoTask ELSE CreateDefaults
    /\ form = EmptyForm
    /\ touched = Untouched
    /\ submitted = FALSE
    /\ events = <<>>
    /\ savesInFlight = 0

---------------------------------------------------------------------------
(* The view that shows the table or the task, before it is set up *)

\* useTasks.ts: tasks and loading as useTasks() creates them, and the view's
\* own refs; rid is the id of the route (none on the dashboard)
ViewInit(rid) ==
    /\ viewTasks = <<>>
    /\ viewLoading = TRUE
    /\ viewError = NoError
    /\ saving = FALSE
    /\ viewReqs = <<>>
    /\ routeId = rid

---------------------------------------------------------------------------
(* The task table and its delete confirmation *)

Did(op, id) == [op |-> op, id |-> id]

TableInit(s) ==
    /\ server = s
    /\ mounted = FALSE
    /\ tasks = <<>>
    /\ loading = TRUE
    /\ error = NoError
    /\ showDeleteModal = FALSE
    /\ taskToDelete = NoTask
    /\ deleting = FALSE
    /\ listReqs = <<>>
    /\ delReqs = <<>>

FilterInit ==
    /\ query = <<>>
    /\ statusFilter = All

Init ==
    /\ TableInit(Backend)
    /\ FilterInit
    /\ FormInit("dashboard")
    /\ ViewInit(NoId)
    /\ StatusInit
    /\ last = Did("init", NoId)

\* useTasks.ts: loadTasks, up to its first await: the GET request is sent
\* by the caller origin: "setup" (TasksTable.vue:175, whose catch sets the
\* error), "onMounted" (useTasks.ts:59, whose rejection nothing handles),
\* "details" (the details view's onMounted) or "handleSave" (a view's save
\* handler)
ListRequest(origin) == [origin |-> origin, phase |-> "sent", body |-> <<>>]

\* TasksTable.vue set up and mounted: setup calls loadTasks() (line 175) and
\* the onMounted hook useTasks registered calls it again (useTasks.ts:59)
Mount ==
    /\ ~mounted
    /\ mounted' = TRUE
    /\ listReqs' = listReqs \o <<ListRequest("setup"), ListRequest("onMounted")>>
    /\ last' = Did("mount", NoId)
    /\ UNCHANGED <<server, tasks, loading, error, showDeleteModal,
                   taskToDelete, deleting, delReqs, filterVars, formVars, viewVars,
                   statusVars>>

\* the backend answers GET /tasks with its collection
ServerList(i) ==
    /\ listReqs[i].phase = "sent"
    /\ listReqs' = [listReqs EXCEPT ![i].phase = "responded", ![i].body = server]
    /\ last' = Did("serverList", NoId)
    /\ UNCHANGED <<server, mounted, tasks, loading, error, showDeleteModal,
                   taskToDelete, deleting, delReqs, filterVars, formVars, viewVars,
                   statusVars>>

\* useTasks.ts: loadTasks after its awaits: the response has arrived
loadTasksResolved(i) ==
    /\ listReqs[i].phase = "responded"
    /\ tasks' = listReqs[i].body
    /\ loading' = FALSE
    /\ listReqs' = RemoveAt(listReqs, i)
    /\ last' = Did("loadTasks:resolved", NoId)
    /\ UNCHANGED <<server, mounted, error, showDeleteModal, taskToDelete,
                   deleting, delReqs, filterVars, formVars, viewVars,
                   statusVars>>

\* the GET request fails on the network: loadTasks rejects; the catch of
\* the call in setup (TasksTable.vue:175-177) sets the error, the rejection
\* of the call useTasks registered with onMounted is handled by nothing
loadTasksRejected(i, err) ==
    /\ error' = IF listReqs[i].origin = "setup"
                THEN ErrorMsg(getErrorMessage(err))
                ELSE error
    /\ listReqs' = RemoveAt(listReqs, i)
    /\ last' = Did(IF listReqs[i].origin = "setup" THEN "loadTasks:rejected"
                   ELSE "onMounted:rejected", NoId)
    /\ UNCHANGED <<server, mounted, tasks, loading, showDeleteModal,
                   taskToDelete, deleting, delReqs, filterVars, formVars, viewVars,
                   statusVars>>

\* the rows the template renders: v-if="loading", v-else-if="error", v-else
TableRendered == mounted /\ ~loading /\ ~Truthy(error)

\* openDeleteModal as it would be with no confirmation step: the Delete
\* button of the row sends the request itself
openDeleteModalDeletes(task) ==
    /\ TableRendered
    /\ \E i \in DOMAIN filteredTasks : filteredTasks[i] = task
    /\ taskToDelete' = task
    /\ showDeleteModal' = TRUE
    /\ deleting' = TRUE
    /\ delReqs' = Append(delReqs, [id |-> task.id, phase |-> "sent"])
    /\ last' = Did("openDeleteModal", task.id)
    /\ UNCHANGED <<server, mounted, tasks, loading, error, listReqs,
                   filterVars, formVars, viewVars,
                   statusVars>>

\* TasksTable.vue: openDeleteModal, from the Delete button of a rendered row
openDeleteModal(task) ==
    /\ TableRendered
    /\ \E i \in DOMAIN filteredTasks : filteredTasks[i] = task
    /\ taskToDelete' = task
    /\ showDeleteModal' = TRUE
    /\ last' = Did("openDeleteModal", task.id)
    /\ UNCHANGED <<server, mounted, tasks, loading, error, deleting, listReqs,
                   delReqs, filterVars, formVars, viewVars,
                   statusVars>>

\* useTasks.ts: deleteTask, up to its await: the DELETE request is sent
DeleteRequest(id) == [id |-> id, phase |-> "sent"]

\* TasksTable.vue: confirmDelete, up to its await
confirmDelete ==
    IF taskToDelete = NoTask
    THEN UNCHANGED <<deleting, error, delReqs>>
    ELSE /\ deleting' = TRUE
         /\ error' = NoError
         /\ delReqs' = Append(delReqs, DeleteRequest(taskToDelete.id))

\* TasksTable.vue: cancelDelete
cancelDelete ==
    /\ showDeleteModal' = FALSE
    /\ taskToDelete' = NoTask

\* onConfirm as it would be without its test of props.loading
onConfirmUnguarded ==
    /\ mounted /\ showDeleteModal
    /\ confirmDelete
    /\ last' = Did("onConfirm", taskToDelete.id)
    /\ UNCHANGED <<server, mounted, tasks, loading, showDeleteModal,
                   taskToDelete, listReqs, filterVars, formVars, viewVars,
                   statusVars>>

\* DeleteModal.vue: onConfirm, the click on the dialog's Delete button
\* (props.loading is the table's deleting)
onConfirm ==
    /\ mounted /\ showDeleteModal
    /\ IF ~deleting
       THEN confirmDelete
       ELSE UNCHANGED <<deleting, error, delReqs>>
    /\ last' = Did("onConfirm", taskToDelete.id)
    /\ UNCHANGED <<server, mounted, tasks, loading, showDeleteModal,
                   taskToDelete, listReqs, filterVars, formVars, viewVars,
                   statusVars>>

\* DeleteModal.vue: onCancel, the click on the dialog's Cancel button
onCancel ==
    /\ mounted /\ showDeleteModal
    /\ IF ~deleting
       THEN cancelDelete
       ELSE UNCHANGED <<showDeleteModal, taskToDelete>>
    /\ last' = Did("onCancel", taskToDelete.id)
    /\ UNCHANGED <<server, mounted, tasks, loading, error, deleting, listReqs,
                   delReqs, filterVars, formVars, viewVars,
                   statusVars>>

\* the backend's collection without the task at API_BASE/String(id)
ServerWithout(id) ==
    SelectSeq(server, LAMBDA t : IdString(t.id) # IdString(id))

\* the backend answers DELETE /tasks/{id}: 2xx when it held the task and has
\* deleted it, 404 when it holds no such task
ServerDelete(i) ==
    /\ delReqs[i].phase = "sent"
    /\ IF \E k \in DOMAIN server : IdString(server[k].id) = IdString(delReqs[i].id)
       THEN /\ server' = ServerWithout(delReqs[i].id)
            /\ delReqs' = [delReqs EXCEPT ![i].phase = "2xx"]
       ELSE /\ server' = server
            /\ delReqs' = [delReqs EXCEPT ![i].phase = "non2xx"]
    /\ last' = Did("serverDelete", delReqs[i].id)
    /\ UNCHANGED <<mounted, tasks, loading, error, showDeleteModal,
                   taskToDelete, deleting, listReqs, filterVars, formVars, viewVars,
                   statusVars>>

\* the backend answers DELETE /tasks/{id} with a 5xx and deletes nothing
ServerDeleteError(i) ==
    /\ delReqs[i].phase = "sent"
    /\ delReqs' = [delReqs EXCEPT ![i].phase = "non2xx"]
    /\ last' = Did("serverDeleteError", delReqs[i].id)
    /\ UNCHANGED <<server, mounted, tasks, loading, error, showDeleteModal,
                   taskToDelete, deleting, listReqs, filterVars, formVars, viewVars,
                   statusVars>>

\* deleteTask as it would be with the filter's comparison inverted
deleteTaskInverted(list, id) ==
    SelectSeq(list, LAMBDA t : IdString(t.id) = IdString(id))

\* useTasks.ts: deleteTask after its await (line 56)
deleteTask(list, id) ==
    SelectSeq(list, LAMBDA t : IdString(t.id) # IdString(id))

\* a response to the DELETE request has arrived, whatever its status (fetch
\* resolves on every response): deleteTask filters the collection and
\* resolves, confirmDelete closes the dialog, its finally clears deleting
confirmDeleteResolved(i) ==
    /\ delReqs[i].phase \in {"2xx", "non2xx"}
    /\ tasks' = deleteTask(tasks, delReqs[i].id)
    /\ showDeleteModal' = FALSE
    /\ taskToDelete' = NoTask
    /\ deleting' = FALSE
    /\ delReqs' = RemoveAt(delReqs, i)
    /\ last' = Did(IF delReqs[i].phase = "2xx" THEN "confirmDelete:resolved"
                   ELSE "confirmDelete:resolved-non2xx", delReqs[i].id)
    /\ UNCHANGED <<server, mounted, loading, error, listReqs, filterVars,
                   formVars, viewVars, statusVars>>

\* the DELETE request fails on the network, before or after the backend has
\* acted on it: fetch rejects, confirmDelete's catch sets the error, its
\* finally clears deleting
confirmDeleteRejected(i, err) ==
    /\ error' = ErrorMsg(getErrorMessage(err))
    /\ deleting' = FALSE
    /\ delReqs' = RemoveAt(delReqs, i)
    /\ last' = Did("confirmDelete:rejected", delReqs[i].id)
    /\ UNCHANGED <<server, mounted, tasks, loading, showDeleteModal,
                   taskToDelete, listReqs, filterVars, formVars, viewVars,
                   statusVars>>

Next ==
    \/ Mount
    \/ \E i \in DOMAIN listReqs : ServerList(i)
    \/ \E i \in DOMAIN listReqs : loadTasksResolved(i)
    \/ \E i \in DOMAIN listReqs : \E err \in FetchErrors : loadTasksRejected(i, err)
    \/ \E t \in TaskPool : openDeleteModal(t)
    \/ onConfirm
    \/ onCancel
    \/ \E i \in DOMAIN delReqs : ServerDelete(i)
    \/ \E i \in DOMAIN delReqs : ServerDeleteError(i)
    \/ \E i \in DOMAIN delReqs : confirmDeleteResolved(i)
    \/ \E i \in DOMAIN delReqs : \E err \in FetchErrors : confirmDeleteRejected(i, err)

Spec == Init /\ [][Next]_vars

---------------------------------------------------------------------------
(* Claims about the delete confirmation, under Spec *)

\* the k-th smallest member of the set of indices idx
NthIndex(idx, k) == CHOOSE i \in idx : Cardinality({j \in idx : j <= i}) = k

\* sub is list restricted to the indices idx, in list's order
IsRestriction(sub, list, idx) ==
    /\ Len(sub) = Cardinality(idx)
    /\ \A k \in 1..Len(sub) : sub[k] = list[NthIndex(idx, k)]

\* the indices of list whose entry has the id, as a string
IndicesOf(list, id) == {k \in DOMAIN list : IdString(list[k].id) = IdString(id)}

DeleteResolved == {"confirmDelete:resolved", "confirmDelete:resolved-non2xx"}

\* C1, as claimed: when a confirmed delete of T succeeds, the collection
\* afterwards is the collection before with exactly one entry removed, the
\* entry whose id as a string is T's, and the dialog is closed with no task
\* pending deletion.
C1_ExactlyOneRemoved ==
    [][last'.op = "confirmDelete:resolved" =>
         /\ Cardinality(IndicesOf(tasks, last'.id)) = 1
         /\ Len(tasks') = Len(tasks) - 1
         /\ IsRestriction(tasks', tasks, DOMAIN tasks \ IndicesOf(tasks, last'.id))
         /\ ~showDeleteModal'
         /\ taskToDelete' = NoTask]_vars

\* C1, what the code guarantees: when a confirmed delete of T succeeds, the
\* collection afterwards is the collection as it was when the response arrived without
\* the entries whose id as a string is T's, the others kept in their order:
\* one entry less when T was still in the collection, the same collection
\* when a list response that arrived meanwhile had already dropped T; the
\* dialog is closed, no task is pending deletion and deleting is false.
C1_MatchingEntriesRemoved ==
    [][last'.op \in DeleteResolved =>
         /\ IsRestriction(tasks', tasks, DOMAIN tasks \ IndicesOf(tasks, last'.id))
         /\ IndicesOf(tasks', last'.id) = {}
         /\ Len(tasks') = IF IndicesOf(tasks, last'.id) = {} THEN Len(tasks)
                          ELSE Len(tasks) - 1
         /\ ~showDeleteModal'
         /\ taskToDelete' = NoTask
         /\ ~deleting']_vars

\* C1, the case reached: the delete of the second of three tasks has succeeded and
\* the first and the third are left, in that order.
C1_Witness ==
    /\ last = Did("confirmDelete:resolved", Catalogue(2).id)
    /\ tasks = <<Catalogue(1), Catalogue(3)>>
    /\ ~showDeleteModal
    /\ taskToDelete = NoTask

DeleteFailed == {"confirmDelete:rejected", "confirmDelete:resolved-non2xx"}

\* C2, as claimed: when a confirmed delete fails (its request ends in a
\* network failure or in a non-2xx response), the collection is unchanged,
\* the dialog stays open on the same task, an error message is set and
\* deleting is false again.
C2_FailedDeleteKeepsDialog ==
    [][(last'.op \in DeleteFailed /\ last'.id = taskToDelete.id) =>
         /\ tasks' = tasks
         /\ showDeleteModal'
         /\ taskToDelete' = taskToDelete
         /\ Truthy(error')
         /\ ~deleting']_vars

\* C2, the part the code keeps: when the DELETE request fails on the
\* network, the collection is unchanged, the dialog stays open on the same
\* task, an error message is set and deleting is false again.
C2_NetworkFailureKeepsDialog ==
    [][last'.op = "confirmDelete:rejected" =>
         /\ tasks' = tasks
         /\ showDeleteModal /\ showDeleteModal'
         /\ taskToDelete' = taskToDelete
         /\ Truthy(error')
         /\ ~deleting']_vars

\* C3: while a delete request is in flight the dialog's confirm and cancel
\* have no effect: at most one delete request is in flight, deleting is true
\* exactly while one is, the dialog stays open until it settles, and a click
\* on either control while deleting changes nothing.
C3_NoDoubleSubmit ==
    /\ [](Len(delReqs) <= 1)
    /\ [](deleting <=> delReqs # <<>>)
    /\ [](deleting => showDeleteModal)
    /\ [][(last'.op \in {"onConfirm", "onCancel"} /\ deleting) =>
            UNCHANGED tableVars]_vars

\* C3, witness: cancel was clicked while the delete request was in flight,
\* and the dialog is still open on the one request.
C3_Witness ==
    /\ last.op = "onCancel"
    /\ deleting
    /\ showDeleteModal
    /\ Len(delReqs) = 1

\* C4: a delete request for a task is issued only by confirming the dialog
\* that was opened for that task (the pending task is set by openDeleteModal
\* alone, and the request carries the pending task's id); opening the dialog
\* and cancelling it issue no request and leave the collection unchanged.
C4_ConfirmBeforeDelete ==
    /\ [][Len(delReqs') > Len(delReqs) =>
            /\ last' = Did("onConfirm", taskToDelete.id)
            /\ showDeleteModal /\ taskToDelete # NoTask
            /\ delReqs' = Append(delReqs, DeleteRequest(taskToDelete.id))]_vars
    /\ [][taskToDelete' # taskToDelete /\ taskToDelete' # NoTask =>
            last' = Did("openDeleteModal", taskToDelete'.id)]_vars
    /\ [](showDeleteModal <=> taskToDelete # NoTask)
    /\ [][last'.op \in {"openDeleteModal", "onCancel"} =>
            delReqs' = delReqs /\ tasks' = tasks /\ server' = server]_vars

\* C4, witness: the dialog was opened for the second task and confirmed, and
\* the one request in flight is for that task.
C4_Witness ==
    /\ last = Did("onConfirm", Catalogue(2).id)
    /\ taskToDelete = Catalogue(2)
    /\ delReqs = <<DeleteRequest(Catalogue(2).id)>>

\* opening and cancelling: the dialog was cancelled with nothing deleted
C4_CancelReached ==
    /\ last.op = "onCancel"
    /\ ~showDeleteModal
    /\ delReqs = <<>>
    /\ tasks = Backend /\ server = Backend

---------------------------------------------------------------------------
(* TaskModal.vue: the task form, and the parent that shows it *)

\* what the user can type into the title and the description
Typed == {<<>>, <<" ">>, <<" ", "a", " ">>, <<"a">>}
\* what the date input can hold: nothing, or a date
DatePicked == {EmptyText, IsoText(19675)}
\* the tasks the details view edits
EditPool == {Catalogue(1), Catalogue(2),
             Task(IdNum(9), JsStr(<<" ", "x">>), JsStr(<<"y", " ">>),
                  JsStr(InProgress), DueNum(1700000000)),
             Task(IdStr(8), JsStr(<<"z">>), JsNull, JsNull,
                  DueStr(RawText(<<"s", "o", "o", "n">>)))}

\* Number(value) for a due value: NaN unless it is a number or a string of
\* white space (the texts of the model hold no numerals)
NaN == [nan |-> TRUE, n |-> 0]
Finite(n) == [nan |-> FALSE, n |-> n]
NumberOf(value) ==
    IF value.t = "number" THEN Finite(value.n)
    ELSE IF value.t = "string" /\ ~value.text.iso /\ Trim(value.text.raw) = <<>>
    THEN Finite(0)
    ELSE NaN

\* !isNaN(new Date(text).getTime())
ParsesAsDate(text) == text.iso

\* TaskModal.vue: toDateInputValue. Numbers count thousands: 1e12 is
\* 1000000000 and a day of 86400000 ms is 86400.
toDateInputValue(value) ==
    IF value.t \in {"undefined", "null"} \/ value = DueStr(EmptyText)
    THEN EmptyText
    ELSE LET parsed == NumberOf(value) IN
         IF ~parsed.nan
         THEN LET num == IF parsed.n > 0 /\ parsed.n < 1000000000
                         THEN parsed.n * 1000 ELSE parsed.n
              IN  IsoText(num \div 86400)
         ELSE IF ParsesAsDate(value.text) THEN IsoText(value.text.day)
         ELSE EmptyText

\* TaskModal.vue: normalizeDueFromInput
normalizeDueFromInput(value) ==
    IF value = EmptyText THEN DueNull ELSE DueStr(value)

\* TaskModal.vue: statusOptions
statusOptions == <<JsStr(ToDo), JsStr(InProgress), JsStr(Done)>>

\* TaskModal.vue:101-111, the validation
titleValid == Len(Trim(form.title)) > 0
descriptionValid == Len(Trim(form.description)) > 0
statusValid == \E i \in DOMAIN statusOptions : statusOptions[i] = form.status
dueValid ==
    IF form.dueInput = EmptyText THEN FALSE ELSE ParsesAsDate(form.dueInput)

\* formValid without the rule on the description
formValidNoDescription == titleValid /\ statusValid /\ dueValid

formValid == titleValid /\ descriptionValid /\ statusValid /\ dueValid

\* the watch of TaskModal.vue:80-98 when visible: the form it seeds from
\* props.initial
SeededForm(init) ==
    [title |-> JsString(Coalesce(init.title, JsStr(<<>>))),
     description |-> JsString(Coalesce(init.description, JsStr(<<>>))),
     status |-> Coalesce(init.status, JsStr(ToDo)),
     dueInput |-> toDateInputValue(init.due)]

\* the watch as it would be if it seeded the fields only
watchVisibleFieldsOnly(init) ==
    [form |-> SeededForm(init), touched |-> touched, submitted |-> submitted]

\* the watch of TaskModal.vue:80-98 when visible: the state it leaves
watchVisible(init) ==
    [form |-> SeededForm(init), touched |-> Untouched, submitted |-> FALSE]

\* a new TaskModal component: the state as declared, then the immediate
\* watch
NewModal(vis, init) ==
    IF vis THEN watchVisible(init)
    ELSE [form |-> EmptyForm, touched |-> Untouched, submitted |-> FALSE]

Event(name, payload) == [name |-> name, payload |-> payload]
CloseEvent == Event("close", NoTask)

\* the parent shows or hides the form: props.visible becomes vis and
\* props.initial is init; m is the form's state before. The watch runs when
\* the form is shown; the keyed dashboard makes a new component when
\* visible changes.
SetVisible(vis, init, m) ==
    /\ visible' = vis
    /\ initial' = init
    /\ LET n == IF parent = "dashboard-keyed" /\ vis # visible
                THEN NewModal(vis, init)
                ELSE IF vis /\ ~visible THEN watchVisible(init)
                ELSE m
       IN  /\ form' = n.form
           /\ touched' = n.touched
           /\ submitted' = n.submitted

ModalState == [form |-> form, touched |-> touched, submitted |-> submitted]

\* DashboardView.vue: openCreate (Add Task); the details view: openEdit on
\* the task it shows
openForm(init) ==
    /\ ~visible
    /\ IF parent = "details" THEN init \in EditPool ELSE init = CreateDefaults
    /\ SetVisible(TRUE, init, ModalState)
    /\ events' = <<>>
    /\ last' = Did("open", init.id)
    /\ UNCHANGED <<parent, savesInFlight, tableVars, filterVars,
                   viewVars, statusVars>>

\* the inputs of the form (v-model), shown while visible
inputTitle(s) ==
    /\ visible
    /\ form' = [form EXCEPT !.title = s]
    /\ last' = Did("input", NoId)
    /\ UNCHANGED <<visible, initial, touched, submitted, events, parent,
                   savesInFlight, tableVars, filterVars,
                   viewVars, statusVars>>

inputDescription(s) ==
    /\ visible
    /\ form' = [form EXCEPT !.description = s]
    /\ last' = Did("input", NoId)
    /\ UNCHANGED <<visible, initial, touched, submitted, events, parent,
                   savesInFlight, tableVars, filterVars,
                   viewVars, statusVars>>

selectStatus(i) ==
    /\ visible
    /\ form' = [form EXCEPT !.status = statusOptions[i]]
    /\ last' = Did("input", NoId)
    /\ UNCHANGED <<visible, initial, touched, submitted, events, parent,
                   savesInFlight, tableVars, filterVars,
                   viewVars, statusVars>>

inputDue(text) ==
    /\ visible
    /\ form' = [form EXCEPT !.dueInput = text]
    /\ last' = Did("input", NoId)
    /\ UNCHANGED <<visible, initial, touched, submitted, events, parent,
                   savesInFlight, tableVars, filterVars,
                   viewVars, statusVars>>

\* @blur of a field
blur(field) ==
    /\ visible
    /\ touched' = [touched EXCEPT ![field] = TRUE]
    /\ last' = Did("blur", NoId)
    /\ UNCHANGED <<visible, initial, form, submitted, events, parent,
                   savesInFlight, tableVars, filterVars,
                   viewVars, statusVars>>

\* the payload as it would be without the spread of props.initial
PayloadWithoutInitial ==
    [NoTask EXCEPT
       !.title = JsStr(Trim(form.title)),
       !.description = IF form.description = <<>> THEN JsNull
                       ELSE JsStr(form.description),
       !.status = form.status,
       !.due = normalizeDueFromInput(form.dueInput)]

\* TaskModal.vue:127-133, the payload of save
Payload ==
    [initial EXCEPT
       !.title = JsStr(Trim(form.title)),
       !.description = IF form.description = <<>> THEN JsNull
                       ELSE JsStr(form.description),
       !.status = form.status,
       !.due = normalizeDueFromInput(form.dueInput)]

AllTouched == [title |-> TRUE, description |-> TRUE, status |-> TRUE,
               due |-> TRUE]

\* save as it would be if it emitted the payload without closing
saveWithoutClose ==
    /\ visible
    /\ formValid => savesInFlight < MaxSaving
    /\ submitted' = TRUE
    /\ touched' = AllTouched
    /\ IF ~formValid
       THEN UNCHANGED <<events, savesInFlight>>
       ELSE /\ events' = events \o <<Event("save", Payload)>>
            /\ savesInFlight' = savesInFlight + 1
    /\ last' = Did("save", NoId)
    /\ UNCHANGED <<visible, initial, form, parent, tableVars, filterVars,
                   viewVars, statusVars>>

\* TaskModal.vue: save (the form's submit). The parent's handlers run as the
\* events are emitted: the save handler starts (handleSave,
\* handleSaveFromModal), the close handler hides the form (closeCreate,
\* cancelEdit).
save ==
    /\ visible
    /\ formValid => savesInFlight < MaxSaving
    /\ IF ~formValid
       THEN /\ submitted' = TRUE
            /\ touched' = AllTouched
            /\ UNCHANGED <<visible, initial, form, events, savesInFlight>>
       ELSE /\ events' = events \o <<Event("save", Payload), CloseEvent>>
            /\ savesInFlight' = savesInFlight + 1
            /\ SetVisible(FALSE, initial,
                          [form |-> form, touched |-> AllTouched,
                           submitted |-> TRUE])
    /\ last' = Did("save", NoId)
    /\ UNCHANGED <<parent, tableVars, filterVars,
                   viewVars, statusVars>>

\* close as it would be if cancelling submitted the form
closeSaving(way) ==
    /\ way \in {"cancel", "backdrop", "x"} => visible
    /\ Len(events) < MaxEvents
    /\ events' = events \o <<Event("save", Payload), CloseEvent>>
    /\ SetVisible(FALSE, initial, ModalState)
    /\ last' = Did("close", NoId)
    /\ UNCHANGED <<parent, savesInFlight, tableVars, filterVars,
                   viewVars, statusVars>>

\* TaskModal.vue: close, from the Cancel button, the backdrop or the x of
\* the shown form, or from onKeydown on Escape (the listener is on the
\* window for as long as the component is mounted). The parent's close
\* handler hides the form.
close(way) ==
    /\ way \in {"cancel", "backdrop", "x"} => visible
    /\ Len(events) < MaxEvents
    /\ events' = Append(events, CloseEvent)
    /\ SetVisible(FALSE, initial, ModalState)
    /\ last' = Did("close", NoId)
    /\ UNCHANGED <<parent, savesInFlight, tableVars, filterVars,
                   viewVars, statusVars>>

Ways == {"cancel", "backdrop", "x", "escape"}

\* the parent's save handler finishes: handleSave's finally hides the form
\* (DashboardView.vue:55-58); handleSaveFromModal hides it when the update
\* succeeded and leaves it when it failed
saveHandlerDone(ok) ==
    /\ savesInFlight > 0
    /\ savesInFlight' = savesInFlight - 1
    /\ parent = "details" \/ ok
    /\ IF ok THEN SetVisible(FALSE, initial, ModalState)
       ELSE UNCHANGED <<visible, initial, form, touched, submitted>>
    /\ last' = Did("saveHandlerDone", NoId)
    /\ UNCHANGED <<events, parent, tableVars, filterVars,
                   viewVars, statusVars>>

InitForm ==
    /\ TableInit(Backend)
    /\ FilterInit
    /\ \E p \in Parents : FormInit(p)
    /\ ViewInit(NoId)
    /\ StatusInit
    /\ last = Did("init", NoId)

NextForm ==
    \/ \E init \in EditPool \cup {CreateDefaults} : openForm(init)
    \/ \E s \in Typed : inputTitle(s)
    \/ \E s \in Typed : inputDescription(s)
    \/ \E i \in DOMAIN statusOptions : selectStatus(i)
    \/ \E text \in DatePicked : inputDue(text)
    \/ \E field \in DOMAIN Untouched : blur(field)
    \/ save
    \/ \E way \in Ways : close(way)
    \/ \E ok \in BOOLEAN : saveHandlerDone(ok)

SpecForm == InitForm /\ [][NextForm]_vars

---------------------------------------------------------------------------
(* Claims about the task form, under SpecForm *)

Canonical == {JsStr(ToDo), JsStr(InProgress), JsStr(Done)}

\* a validation rule fails: the title or the description is empty after
\* trim, the status is not canonical, the due date is missing or no date
RuleFails ==
    \/ Trim(form.title) = <<>>
    \/ Trim(form.description) = <<>>
    \/ form.status \notin Canonical
    \/ form.dueInput = EmptyText
    \/ ~form.dueInput.iso

\* the number of save events among evs
RECURSIVE Saves(_)
Saves(evs) ==
    IF evs = <<>> THEN 0
    ELSE (IF Head(evs).name = "save" THEN 1 ELSE 0) + Saves(Tail(evs))

\* C5: a submit made while a validation rule fails emits no event, neither
\* save nor close, starts no save handler and leaves the form open.
C5_InvalidSubmitEmitsNothing ==
    [][(last'.op = "save" /\ RuleFails) =>
         /\ events' = events
         /\ savesInFlight' = savesInFlight
         /\ visible /\ visible']_vars

\* C5, witness: a submit was rejected for a title of white space alone, all
\* other rules passing; the form is open and has emitted nothing.
C5_Witness ==
    /\ last.op = "save"
    /\ visible /\ submitted
    /\ form.title = <<" ">>
    /\ descriptionValid /\ statusValid /\ dueValid
    /\ events = <<>>

\* C6: a submit made while all rules pass emits exactly one save event and
\* then exactly one close event; a rejected submit emits nothing, so after
\* any number of rejected submits and a passing one the form has emitted
\* exactly one save.
C6_ValidSubmitEmitsSaveThenClose ==
    /\ [][(last'.op = "save" /\ ~RuleFails) =>
            /\ Len(events') = Len(events) + 2
            /\ SubSeq(events', 1, Len(events)) = events
            /\ events'[Len(events) + 1].name = "save"
            /\ events'[Len(events) + 2] = CloseEvent
            /\ Saves(events') = 1]_vars
    /\ [][(last'.op = "save" /\ RuleFails) => Saves(events') = 0]_vars
    /\ [](visible => events = <<>>)

\* C6, witness: a passing submit has emitted save, then close.
C6_Witness ==
    /\ last.op = "save"
    /\ Len(events) = 2
    /\ events[1].name = "save" /\ events[2].name = "close"
    /\ ~visible

\* the payload a passing submit has just emitted
Emitted(evs) == evs[Len(evs) - 1].payload

\* C7, as claimed: the payload of a passing submit carries the trimmed title
\* and the trimmed description, a canonical status, the date input's string
\* as due and the id of the original task.
C7_TrimmedTitleAndDescription ==
    [][(last'.op = "save" /\ events' # events) =>
         /\ Emitted(events').title = JsStr(Trim(form.title))
         /\ Emitted(events').description = JsStr(Trim(form.description))
         /\ Emitted(events').status \in Canonical
         /\ Emitted(events').due = DueStr(form.dueInput)
         /\ Emitted(events').id = initial.id]_vars

\* C7, amended: the payload of a passing submit carries the trimmed title,
\* the description as typed (not trimmed), a canonical status, the date
\* input's string as due and the id of the original task.
C7_TrimmedTitleOnly ==
    [][(last'.op = "save" /\ events' # events) =>
         /\ Emitted(events').title = JsStr(Trim(form.title))
         /\ Emitted(events').description = JsStr(form.description)
         /\ Trim(form.description) # <<>>
         /\ Emitted(events').status \in Canonical
         /\ Emitted(events').status = form.status
         /\ Emitted(events').due = DueStr(form.dueInput)
         /\ form.dueInput # EmptyText
         /\ Emitted(events').id = initial.id]_vars

\* C7, witness: task 9 was edited and submitted with a padded title and a
\* padded description; the payload has the id and the trimmed title.
C7_Witness ==
    /\ last.op = "save"
    /\ parent = "details"
    /\ Len(events) = 2
    /\ form.title = <<" ", "a", " ">>
    /\ form.description = <<" ", "a", " ">>
    /\ events[1].payload.id = IdNum(9)
    /\ events[1].payload.title = JsStr(<<"a">>)

\* C8: cancelling the form (Cancel button, backdrop, x, Escape) emits one
\* close event and no save event and hides the form, and the form that is
\* opened next holds the values seeded from the initial task, whatever was
\* typed before the cancel.
C8_CancelDiscards ==
    /\ [][last'.op = "close" =>
            /\ events' = Append(events, CloseEvent)
            /\ savesInFlight' = savesInFlight
            /\ ~visible']_vars
    /\ [][last'.op = "open" => form' = SeededForm(initial')]_vars

\* C8, witness: the form of the dashboard was cancelled with a title typed
\* into it; it is hidden, has emitted the one close event, and still holds
\* the title.
C8_Witness ==
    /\ last.op = "close"
    /\ parent = "dashboard"
    /\ ~visible
    /\ events = <<CloseEvent>>
    /\ form.title = <<"a">>
    /\ form # SeededForm(initial)

\* C9: whenever the form goes from hidden to shown, its fields are seeded
\* from the initial task (the empty defaults when creating), the four
\* touched flags are false and submitted is false.
C9_OpenSeedsAndResets ==
    [][(~visible /\ visible') =>
         /\ form' = SeededForm(initial')
         /\ (parent # "details" => form' = EmptyForm)
         /\ \A field \in DOMAIN touched' : ~touched'[field]
         /\ ~submitted']_vars

\* C9, witness: the details view opens the form on task 9 while the save of
\* an earlier opening is still running; the fields are the task's, no flag
\* is set.
C9_Witness ==
    /\ last = Did("open", IdNum(9))
    /\ visible
    /\ savesInFlight = 1
    /\ form.title = <<" ", "x">>
    /\ form.dueInput = IsoText(19675)
    /\ touched = Untouched
    /\ ~submitted

---------------------------------------------------------------------------
(* TasksTable.vue: the filters of the loaded table *)

\* the tasks the filtered collections are drawn from
FilterPool == {Catalogue(i) : i \in 1..4}

\* the sequences without repetition over S, of length n at most
InjectiveSeqs(S, n) ==
    UNION {{q \in [1..k -> S] : \A i, j \in 1..k : i # j => q[i] # q[j]} :
           k \in 0..n}

\* what the user can type into the search input
Queries == {<<>>, <<" ">>, <<" ", "M", "I", " ">>, <<"a", "l", "l">>,
            <<"n", "u", "l", "l">>, <<"z">>}

\* TasksTable.vue: statusOptions
tableStatusOptions == <<All, ToDo, InProgress, Done>>

\* v-model="query"
setQuery(q) ==
    /\ mounted
    /\ query' = q
    /\ last' = Did("setQuery", NoId)
    /\ UNCHANGED <<statusFilter, tableVars, formVars, viewVars,
                   statusVars>>

\* v-model="statusFilter"
setStatusFilter(i) ==
    /\ mounted
    /\ statusFilter' = tableStatusOptions[i]
    /\ last' = Did("setStatusFilter", NoId)
    /\ UNCHANGED <<query, tableVars, formVars, viewVars,
                   statusVars>>

\* the table after a load of the collection list has completed
LoadedInit(list) ==
    /\ server = list
    /\ mounted = TRUE
    /\ tasks = list
    /\ loading = FALSE
    /\ error = NoError
    /\ showDeleteModal = FALSE
    /\ taskToDelete = NoTask
    /\ deleting = FALSE
    /\ listReqs = <<>>
    /\ delReqs = <<>>

InitFilter ==
    /\ \E list \in InjectiveSeqs(FilterPool, MaxColl) : LoadedInit(list)
    /\ \E q \in Queries : query = q
    /\ \E i \in DOMAIN tableStatusOptions : statusFilter = tableStatusOptions[i]
    /\ FormInit("dashboard")
    /\ ViewInit(NoId)
    /\ StatusInit
    /\ last = Did("init", NoId)

NextFilter ==
    \/ \E q \in Queries : setQuery(q)
    \/ \E i \in DOMAIN tableStatusOptions : setStatusFilter(i)

SpecFilter == InitFilter /\ [][NextFilter]_vars

---------------------------------------------------------------------------
(* Claims about the derived view, under SpecFilter *)

\* the text of a title or a description: empty when there is none
TextOf(v) == IF IsNullish(v) THEN <<>> ELSE JsString(v)

\* needle occurs in hay, letter case ignored
ContainsIgnoringCase(hay, needle) ==
    \E i, j \in 0..Len(hay) :
        /\ i <= j
        /\ ToLowerCase(SubSeq(hay, i + 1, j)) = ToLowerCase(needle)

\* the task passes the status filter and the query
Passes(t) ==
    /\ statusFilter = All \/ normalizeStatus(t.status) = statusFilter
    /\ \/ Trim(query) = <<>>
       \/ ContainsIgnoringCase(TextOf(t.title), Trim(query))
       \/ ContainsIgnoringCase(TextOf(t.description), Trim(query))

\* C10: the derived view is the collection restricted, in its order, to the
\* tasks whose normalized status is the status filter (any status for All)
\* and whose title or description contains the trimmed query, letter case
\* ignored (every task when the trimmed query is empty); changing a filter
\* leaves the collection as it is.
C10_FilteredView ==
    /\ [](IsRestriction(filteredTasks, tasks,
                        {k \in DOMAIN tasks : Passes(tasks[k])}))
    /\ [][last'.op \in {"setQuery", "setStatusFilter"} => tasks' = tasks]_vars

\* C10, witness: of the report and the milk task, in that order, the filter
\* Done with the query " MI " shows the milk task alone.
C10_Witness ==
    /\ last.op = "setQuery"
    /\ tasks = <<Catalogue(2), Catalogue(1)>>
    /\ statusFilter = Done
    /\ query = <<" ", "M", "I", " ">>
    /\ filteredTasks = <<Catalogue(1)>>

\* an empty view of a collection that is not empty
C10_EmptyViewReached ==
    /\ tasks # <<>>
    /\ filteredTasks = <<>>

---------------------------------------------------------------------------
(* Claims about the load of the table, under Spec *)

\* C11: when the table becomes active it issues exactly one list request.
C11_OneListRequestPerActivation ==
    [][last'.op = "mount" => Len(listReqs') = Len(listReqs) + 1]_vars

\* C12: when a list request of the table's activation fails, the table's
\* error is the message extracted from the failure and the collection is
\* (still) empty.
C12_FailedLoadSetsErrorKeepsEmpty ==
    [][last'.op \in {"loadTasks:rejected", "onMounted:rejected"} =>
         /\ \E err \in FetchErrors : error' = ErrorMsg(getErrorMessage(err))
         /\ tasks' = <<>>]_vars

---------------------------------------------------------------------------
(* DashboardView.vue: the dashboard, with the table it shows and the form  *)
(* it creates tasks with                                                    *)

\* a request of the view's useTasks() instance, up to its await: kind is
\* "list" (GET), "create" (POST) or "update" (PUT); origin is the caller; id
\* is the task the caller's handler has saved (for the reload that follows
\* a save); list and task hold the response's body
ViewRequest(kind, origin, id, payload) ==
    [kind |-> kind, origin |-> origin, phase |-> "sent", id |-> id,
     payload |-> payload, list |-> <<>>, task |-> NoTask]

\* the JSON body of an error response, read as a task: an object with none
\* of a task's fields
ErrorBody == NoTask

\* what res.json() rejects with when the body is not JSON
ParseErrors == {ErrObject("Unexpected token")}

\* the payloads the create form emits: no id, a title, a description, a
\* canonical status, the date input's string
CreatePayloads ==
    {Task(NoId, JsStr(<<"a">>), JsStr(<<"b">>), JsStr(st),
          DueStr(IsoText(19675))) : st \in {ToDo, Done}}

\* the id the backend gives to the next task it creates
RECURSIVE MaxId(_)
MaxId(list) ==
    IF list = <<>> THEN 0
    ELSE LET m == MaxId(Tail(list)) IN
         IF Head(list).id.n > m THEN Head(list).id.n ELSE m
NextId(list) == IdStr(MaxId(list) + 1)

\* DashboardView.vue set up and mounted, with its TasksTable: the table
\* sends its two list requests, and the onMounted hook that the dashboard's
\* own useTasks() registered (useTasks.ts:59) sends a third
MountDashboard ==
    /\ ~mounted
    /\ parent \in {"dashboard", "dashboard-keyed"}
    /\ mounted' = TRUE
    /\ listReqs' = listReqs \o <<ListRequest("setup"), ListRequest("onMounted")>>
    /\ viewReqs' = Append(viewReqs, ViewRequest("list", "onMounted", NoId, NoTask))
    /\ last' = Did("mount", NoId)
    /\ UNCHANGED <<server, tasks, loading, error, showDeleteModal,
                   taskToDelete, deleting, delReqs, filterVars, formVars,
                   viewTasks, viewLoading, viewError, saving, routeId,
                   statusVars>>

\* DashboardView.vue: openCreate, the Add Task button
openCreate ==
    /\ mounted
    /\ openForm(CreateDefaults)

\* DashboardView.vue: closeCreate, on the close event of the form it shows
\* (on the close event of a hidden form it changes nothing)
closeCreate(way) ==
    /\ mounted /\ visible
    /\ close(way)

\* the table's state, which the view's handlers leave alone
tableUi == <<mounted, tasks, loading, error, showDeleteModal, taskToDelete,
             deleting, listReqs, delReqs>>

\* DashboardView.vue: handleSave(payload), up to its first await, called on
\* the form's save event; the close event the form emits next calls
\* closeCreate. createTask sends the POST request.
handleSave(payload) ==
    /\ mounted /\ visible
    /\ parent \in {"dashboard", "dashboard-keyed"}
    /\ savesInFlight < MaxSaving
    /\ Len(server) < MaxTasks + MaxCreated
    /\ Len(viewTasks) <= MaxTasks + MaxCreated
    /\ saving' = TRUE
    /\ viewReqs' = Append(viewReqs, ViewRequest("create", "handleSave", NoId, payload))
    /\ savesInFlight' = savesInFlight + 1
    /\ events' = events \o <<Event("save", payload), CloseEvent>>
    /\ SetVisible(FALSE, initial,
                  [form |-> form, touched |-> AllTouched, submitted |-> TRUE])
    /\ last' = Did("handleSave", NoId)
    /\ UNCHANGED <<server, tableUi, filterVars, parent, viewTasks, viewLoading,
                   viewError, routeId, statusVars>>

\* the backend answers a GET /tasks of the view's instance
ServerViewList(i) ==
    /\ viewReqs[i].kind = "list"
    /\ viewReqs[i].phase = "sent"
    /\ viewReqs' = [viewReqs EXCEPT ![i].phase = "responded", ![i].list = server]
    /\ last' = Did("serverList", NoId)
    /\ UNCHANGED <<server, tableUi, filterVars, formVars, viewTasks,
                   viewLoading, viewError, saving, routeId, statusVars>>

\* the backend answers POST /tasks: it stores the task under a new id and
\* returns it
ServerCreate(i) ==
    /\ viewReqs[i].kind = "create"
    /\ viewReqs[i].phase = "sent"
    /\ LET created == [viewReqs[i].payload EXCEPT !.id = NextId(server)] IN
       /\ server' = Append(server, created)
       /\ viewReqs' = [viewReqs EXCEPT ![i].phase = "2xx", ![i].task = created]
    /\ last' = Did("serverCreate", NextId(server))
    /\ UNCHANGED <<tableUi, filterVars, formVars, viewTasks, viewLoading,
                   viewError, saving, routeId, statusVars>>

\* the backend answers POST /tasks or PUT /tasks/{id} with a 4xx or 5xx and
\* stores nothing; the body of the response is JSON (json) or is not
ServerSaveError(i, json) ==
    /\ viewReqs[i].kind \in {"create", "update"}
    /\ viewReqs[i].phase = "sent"
    /\ viewReqs' = [viewReqs EXCEPT
                      ![i].phase = IF json THEN "non2xx" ELSE "non2xx-text",
                      ![i].task = ErrorBody]
    /\ last' = Did("serverSaveError", NoId)
    /\ UNCHANGED <<server, tableUi, filterVars, formVars, viewTasks,
                   viewLoading, viewError, saving, routeId, statusVars>>

\* useTasks.ts: createTask after its awaits (lines 29-30), for the body
\* created of the response
createTask(list, created) == <<created>> \o list

\* a response to the POST request has arrived with a JSON body, whatever
\* its status (fetch resolves on every response): createTask prepends the
\* body to the instance's collection and resolves, and handleSave goes on to
\* loadTasks (DashboardView.vue:50-52), which sends a GET request
createTaskResolved(i) ==
    /\ viewReqs[i].kind = "create"
    /\ viewReqs[i].phase \in {"2xx", "non2xx"}
    /\ viewTasks' = createTask(viewTasks, viewReqs[i].task)
    /\ viewReqs' = Append(RemoveAt(viewReqs, i),
                          ViewRequest("list", "handleSave", viewReqs[i].task.id,
                                      NoTask))
    /\ last' = Did(IF viewReqs[i].phase = "2xx" THEN "createTask:resolved"
                   ELSE "createTask:resolved-non2xx", viewReqs[i].task.id)
    /\ UNCHANGED <<server, tableUi, filterVars, formVars, viewLoading,
                   viewError, saving, routeId, statusVars>>

\* DashboardView.vue: the end of handleSave, its finally (lines 55-58)
handleSaveFinally ==
    /\ saving' = FALSE
    /\ savesInFlight' = savesInFlight - 1
    /\ SetVisible(FALSE, initial, ModalState)

\* the POST request fails on the network, before or after the backend has
\* acted on it, or the body of its response is not JSON: createTask
\* rejects, handleSave's catch logs the error, its finally runs
createTaskRejected(i, err) ==
    /\ viewReqs[i].kind = "create"
    /\ IF viewReqs[i].phase = "non2xx-text" THEN err \in ParseErrors
       ELSE err \in FetchErrors
    /\ handleSaveFinally
    /\ viewReqs' = RemoveAt(viewReqs, i)
    /\ last' = Did("createTask:rejected", NoId)
    /\ UNCHANGED <<server, tableUi, filterVars, events, parent, viewTasks,
                   viewLoading, viewError, routeId, statusVars>>

\* useTasks.ts: loadTasks of the dashboard's instance after its awaits;
\* when handleSave called it, handleSave's finally runs
dashboardLoadResolved(i) ==
    /\ parent \in {"dashboard", "dashboard-keyed"}
    /\ viewReqs[i].kind = "list"
    /\ viewReqs[i].phase = "responded"
    /\ viewTasks' = viewReqs[i].list
    /\ viewLoading' = FALSE
    /\ viewReqs' = RemoveAt(viewReqs, i)
    /\ IF viewReqs[i].origin = "handleSave"
       THEN /\ handleSaveFinally
            /\ last' = Did("handleSave:resolved", viewReqs[i].id)
       ELSE /\ UNCHANGED <<saving, savesInFlight, visible, initial, form,
                           touched, submitted>>
            /\ last' = Did("view.loadTasks:resolved", NoId)
    /\ UNCHANGED <<server, tableUi, filterVars, events, parent, viewError,
                   routeId, statusVars>>

\* a GET request of the dashboard's instance fails on the network:
\* loadTasks rejects; when handleSave called it, its catch logs the error
\* and its finally runs; the rejection of the call registered with
\* onMounted is handled by nothing
dashboardLoadRejected(i, err) ==
    /\ parent \in {"dashboard", "dashboard-keyed"}
    /\ viewReqs[i].kind = "list"
    /\ viewReqs' = RemoveAt(viewReqs, i)
    /\ IF viewReqs[i].origin = "handleSave"
       THEN /\ handleSaveFinally
            /\ last' = Did("handleSave:reload-rejected", viewReqs[i].id)
       ELSE /\ UNCHANGED <<saving, savesInFlight, visible, initial, form,
                           touched, submitted>>
            /\ last' = Did("view.onMounted:rejected", NoId)
    /\ UNCHANGED <<server, tableUi, filterVars, events, parent, viewTasks,
                   viewLoading, viewError, routeId, statusVars>>

InitDashboard ==
    /\ TableInit(Backend)
    /\ FilterInit
    /\ \E p \in {"dashboard", "dashboard-keyed"} : FormInit(p)
    /\ ViewInit(NoId)
    /\ StatusInit
    /\ last = Did("init", NoId)

NextDashboard ==
    \/ MountDashboard
    \/ \E i \in DOMAIN listReqs : ServerList(i)
    \/ \E i \in DOMAIN listReqs : loadTasksResolved(i)
    \/ \E i \in DOMAIN listReqs : \E err \in FetchErrors : loadTasksRejected(i, err)
    \/ openCreate
    \/ \E way \in Ways : closeCreate(way)
    \/ \E payload \in CreatePayloads : handleSave(payload)
    \/ \E i \in DOMAIN viewReqs : ServerViewList(i)
    \/ \E i \in DOMAIN viewReqs : ServerCreate(i)
    \/ \E i \in DOMAIN viewReqs : \E json \in BOOLEAN : ServerSaveError(i, json)
    \/ \E i \in DOMAIN viewReqs : createTaskResolved(i)
    \/ \E i \in DOMAIN viewReqs :
          \E err \in FetchErrors \cup ParseErrors : createTaskRejected(i, err)
    \/ \E i \in DOMAIN viewReqs : dashboardLoadResolved(i)
    \/ \E i \in DOMAIN viewReqs :
          \E err \in FetchErrors : dashboardLoadRejected(i, err)

SpecDashboard == InitDashboard /\ [][NextDashboard]_vars

---------------------------------------------------------------------------
(* Claims about the dashboard and the repository client, under             *)
(* SpecDashboard                                                           *)

\* the steps in which a request of the repository client has failed: on the
\* network or with a body that is not JSON (rejected), or with a non-2xx
\* response whose body is JSON (resolved-non2xx)
RejectedSteps == {"loadTasks:rejected", "onMounted:rejected",
                  "view.onMounted:rejected", "handleSave:reload-rejected",
                  "createTask:rejected"}
FailedSteps == RejectedSteps \cup {"createTask:resolved-non2xx"}

\* the steps in which an operation that a view has started itself is
\* rejected to it: the table's load (TasksTable.vue:175), the dashboard's
\* create and the reload after it
RejectedToView == {"loadTasks:rejected", "createTask:rejected",
                   "handleSave:reload-rejected"}

\* C13: a list or create request that fails, on the network or with a
\* non-2xx response, is rejected to its caller, and the collection of the
\* instance (and every other collection) is what it was before.
C13_FailedOperationRejects ==
    [][last'.op \in FailedSteps =>
         /\ last'.op \in RejectedSteps
         /\ viewTasks' = viewTasks
         /\ tasks' = tasks]_vars

\* C14: the rejection of an operation started from the dashboard or from
\* its table leaves an error message set, the one getErrorMessage extracts
\* from what the operation rejected with; and the rejection sends no
\* request again.
C14_RejectionSetsErrorMessage ==
    [][last'.op \in RejectedToView =>
         /\ \E err \in FetchErrors \cup ParseErrors :
               \/ error' = ErrorMsg(getErrorMessage(err))
               \/ viewError' = ErrorMsg(getErrorMessage(err))
         /\ Len(viewReqs') <= Len(viewReqs)
         /\ Len(listReqs') <= Len(listReqs)]_vars

\* the list requests handleSave has sent
Reloads(reqs) ==
    Cardinality({k \in DOMAIN reqs :
                   reqs[k].kind = "list" /\ reqs[k].origin = "handleSave"})

\* C15: a save event sends one create request and no list request; the
\* list request of handleSave is sent only when the create request has
\* succeeded, one for each; when the create request fails none is sent; and
\* when handleSave ends the form is closed and saving is false.
C15_CreateThenReload ==
    /\ [][last'.op = "handleSave" =>
            /\ viewReqs' = Append(viewReqs, viewReqs'[Len(viewReqs')])
            /\ viewReqs'[Len(viewReqs')].kind = "create"]_vars
    /\ [][Reloads(viewReqs') > Reloads(viewReqs) =>
            /\ last'.op = "createTask:resolved"
            /\ Reloads(viewReqs') = Reloads(viewReqs) + 1]_vars
    /\ [][last'.op \in {"createTask:rejected", "createTask:resolved-non2xx"} =>
            Reloads(viewReqs') = Reloads(viewReqs)]_vars
    /\ [][last'.op \in {"createTask:rejected", "handleSave:resolved",
                        "handleSave:reload-rejected"} =>
            ~visible' /\ ~saving']_vars

\* C20: when handleSave ends after the create succeeded and the reload
\* completed, the collection the table shows holds the created task.
C20_TableShowsCreatedTask ==
    [][(last'.op = "handleSave:resolved" /\ last'.id # NoId) =>
         \E k \in DOMAIN tasks' : IdString(tasks'[k].id) = IdString(last'.id)]_vars

---------------------------------------------------------------------------
(* The details view of one task, with the form it edits the task with *)

\* the ids a route can name: of tasks the backend holds, and of none
RouteIds == {IdStr(1), IdStr(2), IdStr(7)}

\* the details view: getErrorMessage (lines 118-125), with the fallback of
\* the caller for an empty message (getErrorMessage(err) || fallback)
detailsErrorMessage(err, fallback) ==
    LET m == IF err.t = "string" THEN err.s
             ELSE IF err.t = "object" /\ err.hasMsg THEN err.message
             ELSE "An unexpected error occurred"
    IN  IF m = "" THEN fallback ELSE m

\* the details view: task, the first entry of list whose id, as a string, is
\* the route's; NoTask for undefined
detailsTask(list, rid) ==
    LET found == {k \in DOMAIN list : IdString(list[k].id) = rid} IN
    IF found = {} THEN NoTask
    ELSE list[CHOOSE k \in found : \A j \in found : k <= j]

\* the state the template shows as it would be if it did not test isLoading
detailsShowsIgnoringLoading(list, rid, isLoading, err) ==
    IF detailsTask(list, rid) # NoTask THEN "content"
    ELSE IF Truthy(err) THEN "error"
    ELSE "not-found"

\* the details view: what the template shows (lines 206-235)
detailsShows(list, rid, isLoading, err) ==
    IF detailsTask(list, rid) # NoTask THEN "content"
    ELSE IF isLoading THEN "loading"
    ELSE IF Truthy(err) THEN "error"
    ELSE "not-found"

\* the details view: watch(task), which copies the task into edited when
\* there is one
watchTask(list, rid, edited) ==
    IF detailsTask(list, rid) # NoTask THEN detailsTask(list, rid) ELSE edited

\* the details view set up and mounted: the onMounted hook useTasks
\* registered sends a list request (useTasks.ts:59), and the view's own
\* hook, finding the collection empty, sends another (lines 127-136)
MountDetails ==
    /\ ~mounted
    /\ parent = "details"
    /\ mounted' = TRUE
    /\ viewReqs' = viewReqs \o <<ViewRequest("list", "onMounted", NoId, NoTask),
                                 ViewRequest("list", "details", NoId, NoTask)>>
    /\ last' = Did("mount", NoId)
    /\ UNCHANGED <<server, tasks, loading, error, showDeleteModal,
                   taskToDelete, deleting, listReqs, delReqs, filterVars,
                   formVars, viewTasks, viewLoading, viewError, saving,
                   routeId, statusVars>>

\* the details view: openEdit, the Edit Task button, shown when there is a
\* task
openEdit ==
    /\ mounted /\ ~visible
    /\ parent = "details"
    /\ detailsTask(viewTasks, routeId) # NoTask
    /\ SetVisible(TRUE, detailsTask(viewTasks, routeId), ModalState)
    /\ events' = <<>>
    /\ last' = Did("open", detailsTask(viewTasks, routeId).id)
    /\ UNCHANGED <<parent, savesInFlight, tableVars, filterVars, viewVars,
                   statusVars>>

\* the details view: cancelEdit, on the close event of the form it shows
\* (edited is the task already; on the close event of a hidden form it
\* changes nothing)
cancelEdit(way) ==
    /\ mounted /\ visible
    /\ parent = "details"
    /\ close(way)

\* the payloads the edit form emits for the task it was opened on: the
\* task's other fields (its id), a title, a description, a canonical status,
\* the date input's string
EditPayloads(init) ==
    {[init EXCEPT !.title = JsStr(<<"a">>), !.description = JsStr(<<"b">>),
                  !.status = JsStr(Done), !.due = DueStr(IsoText(19675))]}

\* the details view: handleSaveFromModal(payload), up to its first await,
\* called on the form's save event; the close event the form emits next
\* calls cancelEdit. updateTask sends the PUT request.
handleSaveFromModal(payload) ==
    /\ mounted /\ visible
    /\ parent = "details"
    /\ savesInFlight < MaxSaving
    /\ Len(viewTasks) <= MaxTasks
    /\ saving' = TRUE
    /\ viewReqs' = Append(viewReqs,
                          ViewRequest("update", "handleSave", payload.id, payload))
    /\ savesInFlight' = savesInFlight + 1
    /\ events' = events \o <<Event("save", payload), CloseEvent>>
    /\ SetVisible(FALSE, initial,
                  [form |-> form, touched |-> AllTouched, submitted |-> TRUE])
    /\ last' = Did("handleSaveFromModal", payload.id)
    /\ UNCHANGED <<server, tableUi, filterVars, parent, viewTasks, viewLoading,
                   viewError, routeId, statusVars>>

\* the backend answers PUT /tasks/{id}: it stores the payload under the id
\* and returns the stored task (2xx), or holds no such task (404, with a
\* JSON body)
ServerUpdate(i) ==
    /\ viewReqs[i].kind = "update"
    /\ viewReqs[i].phase = "sent"
    /\ LET held == IndicesOf(server, viewReqs[i].id) IN
       IF held # {}
       THEN LET k == CHOOSE k \in held : TRUE
                stored == [viewReqs[i].payload EXCEPT !.id = server[k].id]
            IN  /\ server' = [server EXCEPT ![k] = stored]
                /\ viewReqs' = [viewReqs EXCEPT ![i].phase = "2xx",
                                                ![i].task = stored]
       ELSE /\ server' = server
            /\ viewReqs' = [viewReqs EXCEPT ![i].phase = "non2xx",
                                            ![i].task = ErrorBody]
    /\ last' = Did("serverUpdate", viewReqs[i].id)
    /\ UNCHANGED <<tableUi, filterVars, formVars, viewTasks, viewLoading,
                   viewError, saving, routeId, statusVars>>

\* updateTask as it would be if it always took its else branch
updateTaskPrepends(list, id, updated) == <<updated>> \o list

\* useTasks.ts: updateTask after its awaits (lines 43-48), for the body
\* updated of the response
updateTask(list, id, updated) ==
    LET found == {k \in DOMAIN list : IdString(list[k].id) = IdString(id)} IN
    IF found # {}
    THEN [list EXCEPT ![CHOOSE k \in found : \A j \in found : k <= j] = updated]
    ELSE <<updated>> \o list

\* a response to the PUT request has arrived with a JSON body, whatever its
\* status: updateTask puts the body into the collection and resolves,
\* watch(task) copies the task into edited, and handleSaveFromModal goes on
\* to loadTasks (line 165), which sends a GET request
updateTaskResolved(i) ==
    /\ viewReqs[i].kind = "update"
    /\ viewReqs[i].phase \in {"2xx", "non2xx"}
    /\ viewTasks' = updateTask(viewTasks, viewReqs[i].id, viewReqs[i].task)
    /\ SetVisible(visible, watchTask(viewTasks', routeId, initial), ModalState)
    /\ viewReqs' = Append(RemoveAt(viewReqs, i),
                          ViewRequest("list", "handleSave", viewReqs[i].id, NoTask))
    /\ last' = Did(IF viewReqs[i].phase = "2xx" THEN "updateTask:resolved"
                   ELSE "updateTask:resolved-non2xx", viewReqs[i].id)
    /\ UNCHANGED <<server, tableUi, filterVars, events, parent, savesInFlight,
                   viewLoading, viewError, saving, routeId, statusVars>>

\* the PUT request fails on the network, or the body of its response is
\* not JSON: updateTask rejects, handleSaveFromModal's catch sets the error,
\* its finally clears saving
updateTaskRejected(i, err) ==
    /\ viewReqs[i].kind = "update"
    /\ IF viewReqs[i].phase = "non2xx-text" THEN err \in ParseErrors
       ELSE err \in FetchErrors
    /\ viewError' = ErrorMsg(detailsErrorMessage(err, "Save failed"))
    /\ saving' = FALSE
    /\ savesInFlight' = savesInFlight - 1
    /\ viewReqs' = RemoveAt(viewReqs, i)
    /\ last' = Did("updateTask:rejected", viewReqs[i].id)
    /\ UNCHANGED <<server, tableUi, filterVars, visible, initial, form,
                   touched, submitted, events, parent, viewTasks, viewLoading,
                   routeId, statusVars>>

\* useTasks.ts: loadTasks of the details view's instance after its awaits;
\* watch(task) copies the task into edited; when handleSaveFromModal called
\* it, the handler hides the form and its finally clears saving
detailsLoadResolved(i) ==
    /\ parent = "details"
    /\ viewReqs[i].kind = "list"
    /\ viewReqs[i].phase = "responded"
    /\ viewTasks' = viewReqs[i].list
    /\ viewLoading' = FALSE
    /\ viewReqs' = RemoveAt(viewReqs, i)
    /\ IF viewReqs[i].origin = "handleSave"
       THEN /\ SetVisible(FALSE, watchTask(viewTasks', routeId, initial),
                          ModalState)
            /\ saving' = FALSE
            /\ savesInFlight' = savesInFlight - 1
            /\ last' = Did("handleSaveFromModal:resolved", viewReqs[i].id)
       ELSE /\ SetVisible(visible, watchTask(viewTasks', routeId, initial),
                          ModalState)
            /\ UNCHANGED <<saving, savesInFlight>>
            /\ last' = Did("view.loadTasks:resolved", NoId)
    /\ UNCHANGED <<server, tableUi, filterVars, events, parent, viewError,
                   routeId, statusVars>>

\* a GET request of the details view's instance fails on the network:
\* loadTasks rejects; the catch of the view's onMounted (lines 132-134) or of
\* handleSaveFromModal sets the error; the rejection of the call useTasks
\* registered with onMounted is handled by nothing
detailsLoadRejected(i, err) ==
    /\ parent = "details"
    /\ viewReqs[i].kind = "list"
    /\ viewReqs' = RemoveAt(viewReqs, i)
    /\ CASE viewReqs[i].origin = "handleSave" ->
              /\ viewError' = ErrorMsg(detailsErrorMessage(err, "Save failed"))
              /\ saving' = FALSE
              /\ savesInFlight' = savesInFlight - 1
              /\ last' = Did("handleSaveFromModal:reload-rejected", viewReqs[i].id)
         [] viewReqs[i].origin = "details" ->
              /\ viewError' = ErrorMsg(detailsErrorMessage(err, "Failed to load tasks"))
              /\ UNCHANGED <<saving, savesInFlight>>
              /\ last' = Did("details.loadTasks:rejected", NoId)
         [] OTHER ->
              /\ UNCHANGED <<viewError, saving, savesInFlight>>
              /\ last' = Did("view.onMounted:rejected", NoId)
    /\ UNCHANGED <<server, tableUi, filterVars, visible, initial, form,
                   touched, submitted, events, parent, viewTasks, viewLoading,
                   routeId, statusVars>>

InitDetails ==
    /\ TableInit(Backend)
    /\ FilterInit
    /\ FormInit("details")
    /\ \E rid \in RouteIds : ViewInit(rid)
    /\ StatusInit
    /\ last = Did("init", NoId)

NextDetails ==
    \/ MountDetails
    \/ openEdit
    \/ \E way \in Ways : cancelEdit(way)
    \/ \E payload \in EditPayloads(initial) : handleSaveFromModal(payload)
    \/ \E i \in DOMAIN viewReqs : ServerViewList(i)
    \/ \E i \in DOMAIN viewReqs : ServerUpdate(i)
    \/ \E i \in DOMAIN viewReqs : \E json \in BOOLEAN : ServerSaveError(i, json)
    \/ \E i \in DOMAIN viewReqs : updateTaskResolved(i)
    \/ \E i \in DOMAIN viewReqs :
          \E err \in FetchErrors \cup ParseErrors : updateTaskRejected(i, err)
    \/ \E i \in DOMAIN viewReqs : detailsLoadResolved(i)
    \/ \E i \in DOMAIN viewReqs :
          \E err \in FetchErrors : detailsLoadRejected(i, err)

SpecDetails == InitDetails /\ [][NextDetails]_vars

---------------------------------------------------------------------------
(* Claims about the details view, under SpecDetails *)

\* the bodies of the 2xx responses to the PUT requests for id in flight
Returned(reqs, id) ==
    {reqs[i].task : i \in {j \in DOMAIN reqs :
                             /\ reqs[j].kind = "update"
                             /\ reqs[j].phase = "2xx"
                             /\ reqs[j].id = id}}

\* C16: when an update of id succeeds and the collection holds an entry
\* with that id (as a string), the collection afterwards has the task the
\* backend returned at the position of that entry and is the same
\* everywhere else, with the same length.
C16_UpdateInPlace ==
    [][(last'.op = "updateTask:resolved" /\ IndicesOf(viewTasks, last'.id) # {}) =>
         LET at == CHOOSE k \in IndicesOf(viewTasks, last'.id) :
                     \A j \in IndicesOf(viewTasks, last'.id) : k <= j
         IN  /\ Len(viewTasks') = Len(viewTasks)
             /\ viewTasks'[at] \in Returned(viewReqs, last'.id)
             /\ \A k \in DOMAIN viewTasks :
                   k # at => viewTasks'[k] = viewTasks[k]]_vars

\* C16, witness: the details view of task 2 has saved the title 'a'; the
\* collection holds the returned task second, between tasks 1 and 3.
C16_Witness ==
    /\ last = Did("updateTask:resolved", IdNum(2))
    /\ Len(viewTasks) = 3
    /\ viewTasks[1] = Catalogue(1)
    /\ viewTasks[2].id = IdNum(2)
    /\ viewTasks[2].title = JsStr(<<"a">>)
    /\ viewTasks[2] # Catalogue(2)
    /\ viewTasks[3] = Catalogue(3)

\* what the details view shows
Shows == detailsShows(viewTasks, routeId, viewLoading, viewError)

\* C17: the details view shows the task exactly when the collection holds
\* an entry whose id, as a string, is the route's, and then the first such
\* entry; it shows not-found only when no error is set, no such entry
\* exists and a load has completed, loading ending only in a step that
\* delivers a list response; until then it shows the loading state.
C17_NotFoundOnlyAfterLoad ==
    /\ [](mounted =>
            /\ Shows = "content" <=> IndicesOf(viewTasks, routeId) # {}
            /\ Shows = "content" =>
                  /\ IdString(detailsTask(viewTasks, routeId).id) = routeId
                  /\ \E k \in DOMAIN viewTasks :
                        /\ viewTasks[k] = detailsTask(viewTasks, routeId)
                        /\ \A j \in 1..(k - 1) : IdString(viewTasks[j].id) # routeId
            /\ Shows = "not-found" =>
                  /\ ~viewLoading
                  /\ ~viewError.set
                  /\ IndicesOf(viewTasks, routeId) = {}
            /\ viewLoading => Shows = "loading")
    /\ [][(viewLoading /\ ~viewLoading') =>
            last'.op \in {"view.loadTasks:resolved",
                          "handleSaveFromModal:resolved"}]_vars

\* C17, witness: the route names task 7, which the backend does not hold;
\* a load has completed with the three tasks and the view shows not-found.
C17_Witness ==
    /\ routeId = IdStr(7)
    /\ last.op = "view.loadTasks:resolved"
    /\ Len(viewTasks) = 3
    /\ ~viewLoading
    /\ Shows = "not-found"

\* C17, the loading state: the first load of the view is pending and the
\* other has been rejected with an error; the view shows the loading state.
C17_LoadingReached ==
    /\ viewLoading
    /\ viewError.set
    /\ Len(viewReqs) = 1
    /\ Shows = "loading"

---------------------------------------------------------------------------
(* TasksTable.vue: normalizeStatus applied to the status of a row *)

\* what raw statuses are made of: the words normalizeStatus looks for, in
\* lower and other case, and other text
Fragments == {Sdone, Scompleted, Sprogress, Sdoing, Stodo, Sopen, Sin,
              <<"x">>, <<" ">>, <<"D", "O", "N", "E">>, InProgress}

\* the texts of n fragments at most
RECURSIVE Texts(_)
Texts(n) ==
    IF n = 0 THEN {<<>>}
    ELSE Texts(n - 1) \cup {t \o f : t \in Texts(n - 1), f \in Fragments}

\* the values a task's status can hold (Task.status, and what the backend
\* sends for it)
RawStatuses ==
    {JsStr(t) : t \in Texts(MaxFragments)}
      \cup {JsBool(TRUE), JsBool(FALSE), JsNull, JsUndefined}

\* the template's status cell of a row whose task has the status rawStatus
\* (line 272): normalizeStatus(task.status)
showStatus ==
    /\ decided = Undecided
    /\ decided' = [status |-> normalizeStatus(rawStatus),
                   at |-> normalizeStatusReturn(rawStatus)]
    /\ last' = Did("normalizeStatus", NoId)
    /\ UNCHANGED <<rawStatus, tableVars, filterVars, formVars, viewVars>>

InitStatus ==
    /\ TableInit(Backend)
    /\ FilterInit
    /\ FormInit("dashboard")
    /\ ViewInit(NoId)
    /\ \E r \in RawStatuses : rawStatus = r
    /\ decided = Undecided
    /\ last = Did("init", NoId)

NextStatus == showStatus

SpecStatus == InitStatus /\ [][NextStatus]_vars

---------------------------------------------------------------------------
(* Claims about normalizeStatus, under SpecStatus *)

\* the text is the word, letter case ignored
IsIgnoringCase(text, word) == ToLowerCase(text) = ToLowerCase(word)

\* the rules of the classification, in their order
Rule1(v) ==
    \/ v = JsBool(TRUE)
    \/ IsIgnoringCase(JsString(v), Sdone)
    \/ IsIgnoringCase(JsString(v), Scompleted)
Rule2(v) ==
    \/ ContainsIgnoringCase(TextOf(v), Sprogress)
    \/ ContainsIgnoringCase(TextOf(v), Sdoing)
Rule3(v) ==
    \/ ContainsIgnoringCase(TextOf(v), Stodo)
    \/ IsIgnoringCase(TextOf(v), Sopen)
    \/ TextOf(v) = <<>>
Rule4(v) ==
    \/ ContainsIgnoringCase(TextOf(v), Sdone)
    \/ ContainsIgnoringCase(TextOf(v), Scompleted)

\* the status the first rule that matches gives
ClaimedStatus(v) ==
    IF Rule1(v) THEN Done
    ELSE IF Rule2(v) THEN InProgress
    ELSE IF Rule3(v) THEN ToDo
    ELSE IF Rule4(v) THEN Done
    ELSE ToDo

\* C18: normalizeStatus returns one of To Do, In Progress, Done for every
\* value, the one given by the first rule that matches: true, or exactly
\* done or completed: Done; containing progress or doing: In Progress;
\* containing todo, exactly open, or empty, null, undefined: To Do;
\* containing done or completed: Done; anything else: To Do (letter case
\* ignored).
C18_NormalizeStatusRules ==
    decided # Undecided =>
        /\ decided.status \in {ToDo, InProgress, Done}
        /\ decided.status = ClaimedStatus(rawStatus)

\* C18, witness: 'doneprogress' is In Progress, by the second rule although
\* the fourth matches too.
C18_Witness ==
    /\ rawStatus = JsStr(Sdone \o Sprogress)
    /\ decided.status = InProgress
    /\ ~Rule1(rawStatus) /\ Rule2(rawStatus) /\ Rule4(rawStatus)

\* C19, as claimed: no value is classified by the final test for 'done' and
\* 'completed' (the fifth return statement).
C19_FinalBranchUnreachable == decided.at # 5

\* C19, amended: the final test for 'done' and 'completed' classifies, as
\* Done, exactly the values that contain done or completed without being
\* one of them, and that contain none of progress, doing and todo (such a
\* value is neither open nor empty); every other value is classified by
\* another return statement, which returns what the rules give.
C19_FinalBranchClassifiesSubstrings ==
    decided # Undecided =>
        /\ decided.at = 5 <=>
              /\ Rule4(rawStatus)
              /\ ~Rule1(rawStatus) /\ ~Rule2(rawStatus)
              /\ ~ContainsIgnoringCase(TextOf(rawStatus), Stodo)
        /\ decided.at = 5 => decided.status = Done
        /\ decided.at \in DOMAIN ReturnedAt
        /\ decided.status = ReturnedAt[decided.at]

\* C19, witness: ' done' is classified by the final test, as Done.
C19_Witness ==
    /\ rawStatus = JsStr(<<" ">> \o Sdone)
    /\ decided = [status |-> Done, at |-> 5]

---------------------------------------------------------------------------
(* Claims about the table's delete and load together, under Spec *)

\* the collection holds no entry of the id (as a string)
Absent(list, id) == IndicesOf(list, id) = {}

\* the task of the id has been deleted for the table: the backend held it
\* and holds it no more, the collection does not hold it and no DELETE
\* request for it is in flight
Gone(id) ==
    /\ ~Absent(Backend, id)
    /\ Absent(server, id)
    /\ Absent(tasks, id)
    /\ \A k \in DOMAIN delReqs : IdString(delReqs[k].id) # IdString(id)

\* C21: once a confirmed delete of a task has succeeded, no later step
\* brings an entry of its id back into the table's collection: neither the
\* step that follows the delete nor any step after it, the delivery of a
\* list response that was in flight included.
C21_DeletedTaskStaysAbsent ==
    /\ [][(last.op = "confirmDelete:resolved" /\ Absent(tasks, last.id)) =>
            Absent(tasks', last.id)]_vars
    /\ [][\A t \in TaskPool : Gone(t.id) => Absent(tasks', t.id)]_vars

\* C22: when the loads of the table have ended, by a response or by a
\* failure, loading is false, so that an error they have set is what the
\* template shows.
C22_EndedLoadClearsLoading ==
    (mounted /\ listReqs = <<>>) => ~loading

\* C23: a cancel that follows a failed delete closes the confirmation with
\* no error set, and a delete that succeeds closes it without setting one,
\* so that the rows are shown again.
C23_ClosedDialogShowsRows ==
    /\ [][(last.op = "confirmDelete:rejected" /\ last'.op = "onCancel"
            /\ ~showDeleteModal') => ~Truthy(error')]_vars
    /\ [][last'.op \in DeleteResolved =>
            (~showDeleteModal' /\ error' = error)]_vars

===========================================================================
